---------------------------- MODULE Spec2Model ----------------------------
(***************************************************************************)
(* The Flask demonstration API of examples/python-flask-api/app.py:        *)
(* four routes (GET /, GET /health, GET /api/users, POST /api/users)       *)
(* served by the worker threads of the development server.                 *)
(*                                                                         *)
(* The wall clock is counted in ticks, TicksPerMs ticks to a millisecond.  *)
(* time.time() is the wall clock: it advances and, on a clock adjustment,  *)
(* may be set back.                                                        *)
(***************************************************************************)
EXTENDS Integers, Sequences, FiniteSets, TLC

\* ---- bounds of the model ------------------------------------------------
TicksPerMs == 2
MaxClock == 5
MaxCreated == 2

\* the worker threads of the server: two, so that any two requests may overlap
Threads == {"w1", "w2"}
\* The wall clock never shows a time before 1 ms after the epoch.
MinClock == TicksPerMs

VARIABLES
    clock,          \* time.time(), in ticks
    steppedBack,    \* history: the wall clock was set back at least once
    framework,      \* the installed Flask/Werkzeug generation (fixed per process)
    has_start_time, \* hasattr(app, 'start_time')
    start_time,     \* app.start_time, in ticks (0 while unset)
    thr,            \* per worker thread: the request it serves and the handler's locals
    created,        \* history: number of POSTs answered 201 (MaxCreated: that many or more)
    lastId,         \* history: id given by the most recent 201 (0: none yet)
    lastCount       \* history: count of the most recent GET /api/users answer (0: none yet)

vars == <<clock, steppedBack, framework, has_start_time, start_time, thr,
          created, lastId, lastCount>>

\* ---- JSON values, as Python sees them after parsing ----------------------
JNull == [null |-> TRUE]
JBool(b) == [bool |-> b]
JNum(n) == [num |-> n]
JStr(s) == [str |-> s]
\* a JSON array of n elements (the elements are never read)
JList(n) == [list |-> n]
\* the marker of a key that the object does not carry
Missing == [missing |-> TRUE]
\* a JSON object, seen through its two keys of interest
JObj(n, e) == [obj |-> [name |-> n, email |-> e]]

IsObj(v) == "obj" \in DOMAIN v

\* Python's truth value of a parsed JSON value (bool(v))
Truthy(v) ==
    CASE "null" \in DOMAIN v -> FALSE
      [] "bool" \in DOMAIN v -> v.bool
      [] "num" \in DOMAIN v -> v.num # 0
      [] "str" \in DOMAIN v -> Len(v.str) > 0
      [] "list" \in DOMAIN v -> v.list > 0
      [] "obj" \in DOMAIN v -> \E k \in DOMAIN v.obj : v.obj[k] # Missing

\* dict.get(k): the value, or None when the key is absent
DictGet(d, k) == IF d.obj[k] = Missing THEN JNull ELSE d.obj[k]

\* ---- requests ------------------------------------------------------------
NameValues == {JStr("Dana"), JStr("Eve"), JBool(TRUE), JStr(""), JNull, JNum(0), JBool(FALSE)}
EmailValues == {JStr("dana@x.com"), JStr(""), JNull, JNum(0), JBool(FALSE)}
Objects == {JObj(n, e) : n \in NameValues \cup {Missing}, e \in EmailValues \cup {Missing}}
TopValues == Objects \cup {JNull, JBool(FALSE), JNum(0), JNum(7), JStr(""), JStr("x"),
                           JList(0), JList(1)}

\* the raw body: absent, bytes that are no JSON, or the text of a JSON value
RawAbsent == [absent |-> TRUE]
RawMalformed == [malformed |-> TRUE]
RawJson(v) == [json |-> v]
Raws == {RawAbsent, RawMalformed} \cup {RawJson(v) : v \in TopValues}

GetReq(route) == [route |-> route, ctype |-> "none", raw |-> RawAbsent]
PostReq(ctype, raw) == [route |-> "POST /api/users", ctype |-> ctype, raw |-> raw]

GetRequests == {GetReq("GET /"), GetReq("GET /health"), GetReq("GET /api/users")}
AllRequests == GetRequests \cup {PostReq(c, b) : c \in {"json", "other"}, b \in Raws}
\* the requests of the concurrent specification
ConcRequests == GetRequests \cup
    {PostReq("json", RawJson(JObj(JStr("Dana"), JStr("dana@x.com")))),
     PostReq("json", RawJson(JObj(JStr("Eve"), JStr("dana@x.com")))),
     PostReq("json", RawJson(JObj(JStr("Dana"), Missing))),
     PostReq("other", RawAbsent)}

Frameworks == {"pre-2.1", "2.1-2.2", "2.3+"}

\* ---- responses -----------------------------------------------------------
NoReq == [route |-> "none", ctype |-> "none", raw |-> RawAbsent]
NoData == [unset |-> TRUE]
NoResp == [status |-> 0, body |-> [none |-> TRUE]]
Idle == [pc |-> "idle", req |-> NoReq, data |-> NoData, users |-> <<>>, resp |-> NoResp]

\* jsonify(body), status
Json(status, body) == [status |-> status, body |-> body]
\* the framework's own error page for an HTTP exception
FrameworkError(status) == [status |-> status, body |-> [html |-> status]]

\* datetime.datetime.now().isoformat(): the text form of the clock reading
IsoFormat(c) == [iso |-> c]

\* int(time.time() * 1000): whole milliseconds, truncated toward zero
IntMillis(c) == IF c >= 0 THEN c \div TicksPerMs ELSE -((-c) \div TicksPerMs)

Min(a, b) == IF a < b THEN a ELSE b

\* ---- the process ---------------------------------------------------------
\* lines 5 and 50-56: the module is loaded; the main block records the start
\* time, a WSGI server importing the module does not run it.
Init ==
    /\ clock = MinClock + 1
    /\ steppedBack = FALSE
    /\ framework \in Frameworks
    /\ has_start_time \in BOOLEAN
    /\ start_time = IF has_start_time THEN clock ELSE 0
    /\ thr = [t \in Threads |-> Idle]
    /\ created = 0
    /\ lastId = 0
    /\ lastCount = 0

Tick ==
    /\ clock < MaxClock
    /\ clock' = clock + 1
    /\ UNCHANGED <<steppedBack, framework, has_start_time, start_time, thr,
                   created, lastId, lastCount>>

StepBack ==
    /\ clock > MinClock
    /\ clock' = clock - 1
    /\ steppedBack' = TRUE
    /\ UNCHANGED <<framework, has_start_time, start_time, thr, created, lastId, lastCount>>

\* the server hands request r to the idle worker t
Receive(t, r) ==
    /\ thr[t].pc = "idle"
    /\ thr' = [thr EXCEPT ![t] = [Idle EXCEPT !.pc = "recv", !.req = r]]
    /\ UNCHANGED <<clock, steppedBack, framework, has_start_time, start_time,
                   created, lastId, lastCount>>

Finish(t, resp) == thr' = [thr EXCEPT ![t].pc = "done", ![t].resp = resp]

\* lines 7-13
HelloBody(c) ==
    [message |-> "Hello from aisanity sandboxed Python Flask API!",
     timestamp |-> IsoFormat(c),
     environment |-> "development"]

hello(t) ==
    /\ thr[t].pc = "recv"
    /\ thr[t].req.route = "GET /"
    /\ Finish(t, Json(200, HelloBody(clock)))
    /\ UNCHANGED <<clock, steppedBack, framework, has_start_time, start_time,
                   created, lastId, lastCount>>

\* mutant: the difference is taken the wrong way round
UptimeReversed == IF has_start_time THEN start_time - clock ELSE 0

\* line 19
Uptime == IF has_start_time THEN clock - start_time ELSE 0

\* lines 15-20
health(t) ==
    /\ thr[t].pc = "recv"
    /\ thr[t].req.route = "GET /health"
    /\ Finish(t, Json(200, [status |-> "OK", uptime |-> Uptime]))
    /\ UNCHANGED <<clock, steppedBack, framework, has_start_time, start_time,
                   created, lastId, lastCount>>

\* lines 24-28: the list get_users builds on every call
SeedUsers ==
    << [id |-> 1, name |-> "Alice", email |-> "alice@aisanity.dev"],
       [id |-> 2, name |-> "Bob", email |-> "bob@aisanity.dev"],
       [id |-> 3, name |-> "Charlie", email |-> "charlie@aisanity.dev"] >>

\* mutant: the handler answers from a process-wide list that create_user appends to
StoredUsersList ==
    SeedUsers \o [i \in 1..created |-> [id |-> lastId, name |-> "created", email |-> "created"]]

\* mutant: the handler answers from a process-wide list that loses its last
\* record once a user has been created
ShrinkingUsersList == IF created > 0 THEN SubSeq(SeedUsers, 1, 2) ELSE SeedUsers

UsersList == SeedUsers

\* lines 22-28: the handler builds its local list
get_users_build(t) ==
    /\ thr[t].pc = "recv"
    /\ thr[t].req.route = "GET /api/users"
    /\ thr' = [thr EXCEPT ![t].pc = "listed", ![t].users = UsersList]
    /\ UNCHANGED <<clock, steppedBack, framework, has_start_time, start_time,
                   created, lastId, lastCount>>

\* mutant: the count is one short of the list
UsersBodyOffByOne(users) == [users |-> users, count |-> Len(users) - 1]

\* line 29
UsersBody(users) == [users |-> users, count |-> Len(users)]

get_users_return(t) ==
    /\ thr[t].pc = "listed"
    /\ Finish(t, Json(200, UsersBody(thr[t].users)))
    /\ lastCount' = UsersBody(thr[t].users).count
    /\ UNCHANGED <<clock, steppedBack, framework, has_start_time, start_time,
                   created, lastId>>

\* mutant: get_json(silent=True), None for whatever cannot be read as JSON
GetJsonSilent(req) ==
    IF req.ctype = "json" /\ "json" \in DOMAIN req.raw
    THEN [value |-> req.raw.json]
    ELSE [value |-> JNull]

\* line 33, request.get_json(): the parsed value, or the HTTP exception raised.
\* A request whose content type is not JSON yields None before Flask 2.1,
\* 400 Bad Request in 2.1-2.2 and 415 Unsupported Media Type from 2.3 on;
\* a JSON request whose body does not parse yields 400 Bad Request.
GetJson(req) ==
    IF req.ctype # "json"
    THEN CASE framework = "pre-2.1" -> [value |-> JNull]
           [] framework = "2.1-2.2" -> [abort |-> 400]
           [] framework = "2.3+" -> [abort |-> 415]
    ELSE IF "json" \in DOMAIN req.raw
         THEN [value |-> req.raw.json]
         ELSE [abort |-> 400]

create_user_get_json(t) ==
    /\ thr[t].pc = "recv"
    /\ thr[t].req.route = "POST /api/users"
    /\ LET r == GetJson(thr[t].req)
       IN  IF "abort" \in DOMAIN r
           THEN Finish(t, FrameworkError(r.abort))
           ELSE thr' = [thr EXCEPT ![t].pc = "parsed", ![t].data = r.value]
    /\ UNCHANGED <<clock, steppedBack, framework, has_start_time, start_time,
                   created, lastId, lastCount>>

\* mutant: the email check is forgotten
ValidateNameOnly(data) ==
    IF ~Truthy(data) THEN "reject"
    ELSE IF ~IsObj(data) THEN "raise"
    ELSE IF ~Truthy(DictGet(data, "name")) THEN "reject"
    ELSE "ok"

\* mutant: the keys are tested for presence ('name' not in data), not for truth
ValidatePresence(data) ==
    IF ~Truthy(data) THEN "reject"
    ELSE IF ~IsObj(data) THEN "raise"
    ELSE IF data.obj.name = Missing \/ data.obj.email = Missing THEN "reject"
    ELSE "ok"

\* line 35: "reject" when the condition is true, "raise" when data.get does
\* not exist (a truthy value that is no dict: AttributeError), else "ok"
Validate(data) ==
    IF ~Truthy(data) THEN "reject"
    ELSE IF ~IsObj(data) THEN "raise"
    ELSE IF ~Truthy(DictGet(data, "name")) \/ ~Truthy(DictGet(data, "email"))
         THEN "reject"
         ELSE "ok"

\* line 36
RequiredError == Json(400, [error |-> "Name and email are required"])

\* mutant: round(time.time() * 1000), to the nearest millisecond
UserIdRounded(c) == (c + (TicksPerMs \div 2)) \div TicksPerMs

\* line 39
UserId(c) == IntMillis(c)

\* mutant: name and email are taken from each other's key
NewUserSwapped(data, c) ==
    [id |-> UserId(c),
     name |-> data.obj.email,
     email |-> data.obj.name,
     created_at |-> IsoFormat(c)]

\* lines 38-43
NewUser(data, c) ==
    [id |-> UserId(c),
     name |-> data.obj.name,
     email |-> data.obj.email,
     created_at |-> IsoFormat(c)]

\* lines 45-48
Created(user) == Json(201, [message |-> "User created successfully", user |-> user])

\* lines 35-48, on the parsed value and the clock reading
CreateUserResponse(data, c) ==
    CASE Validate(data) = "reject" -> RequiredError
      [] Validate(data) = "raise" -> FrameworkError(500)
      [] Validate(data) = "ok" -> Created(NewUser(data, c))

create_user_respond(t) ==
    /\ thr[t].pc = "parsed"
    /\ LET resp == CreateUserResponse(thr[t].data, clock)
       IN  /\ Finish(t, resp)
           /\ IF resp.status = 201
              THEN /\ created' = Min(created + 1, MaxCreated)
                   /\ lastId' = resp.body.user.id
              ELSE UNCHANGED <<created, lastId>>
    /\ UNCHANGED <<clock, steppedBack, framework, has_start_time, start_time, lastCount>>

\* the response has been sent; the worker is free again
Reply(t) ==
    /\ thr[t].pc = "done"
    /\ thr' = [thr EXCEPT ![t] = Idle]
    /\ UNCHANGED <<clock, steppedBack, framework, has_start_time, start_time,
                   created, lastId, lastCount>>

Handle(t) ==
    \/ hello(t)
    \/ health(t)
    \/ get_users_build(t)
    \/ get_users_return(t)
    \/ create_user_get_json(t)
    \/ create_user_respond(t)
    \/ Reply(t)

\* the threaded development server: any worker, a small set of requests
Next ==
    \/ Tick
    \/ StepBack
    \/ \E t \in Threads : \E r \in ConcRequests : Receive(t, r)
    \/ \E t \in Threads : Handle(t)

Spec == Init /\ [][Next]_vars

\* one worker, every request of AllRequests
MainThread == "w1"

NextSeq ==
    \/ Tick
    \/ StepBack
    \/ \E r \in AllRequests : Receive(MainThread, r)
    \/ Handle(MainThread)

SpecSeq == Init /\ [][NextSeq]_vars

\* ---- properties -----------------------------------------------------------
Done(t) == thr[t].pc = "done"
IsRoute(t, route) == thr[t].req.route = route
DoneUsers(t) == Done(t) /\ IsRoute(t, "GET /api/users")
DonePost(t) == Done(t) /\ IsRoute(t, "POST /api/users")

Alice == [id |-> 1, name |-> "Alice", email |-> "alice@aisanity.dev"]
Bob == [id |-> 2, name |-> "Bob", email |-> "bob@aisanity.dev"]
Charlie == [id |-> 3, name |-> "Charlie", email |-> "charlie@aisanity.dev"]
ErrorRequired == [status |-> 400, body |-> [error |-> "Name and email are required"]]

C2_SeedsKeptCountNeverShrinks ==
    /\ [](\A t \in Threads :
            DoneUsers(t) =>
                /\ Len(thr[t].resp.body.users) >= 3
                /\ SubSeq(thr[t].resp.body.users, 1, 3) = <<Alice, Bob, Charlie>>)
    /\ [][\A t \in Threads :
            get_users_return(t) => thr'[t].resp.body.count >= lastCount]_vars

\* two answers of GET /api/users exist, and a POST has been answered 201
C2_Witness ==
    \E t, u \in Threads :
        /\ t # u
        /\ DoneUsers(t)
        /\ DoneUsers(u)
        /\ lastCount = 3
        /\ created >= 1

\* C3: the count of every GET /api/users answer is the length of its users
\* list; while no POST has been answered 201 the answer is status 200 with
\* exactly Alice, Bob and Charlie and count 3.
C3_FreshListIsSeed ==
    \A t \in Threads :
        DoneUsers(t) =>
            /\ thr[t].resp.body.count = Len(thr[t].resp.body.users)
            /\ created = 0 =>
                  thr[t].resp = [status |-> 200,
                                 body |-> [users |-> <<Alice, Bob, Charlie>>, count |-> 3]]

C3_Witness ==
    /\ created = 0
    /\ lastId = 0
    /\ DoneUsers(MainThread)
    /\ thr[MainThread].resp.status = 200
    /\ thr[MainThread].resp.body.count = 3

\* C4: a POST whose parsed body is an object without the key name, without
\* the key email or without both is answered 400 with the body
\* {"error": "Name and email are required"}, never 201.
C4_MissingKeyRejected ==
    \A t \in Threads :
        (/\ DonePost(t)
         /\ IsObj(thr[t].data)
         /\ (thr[t].data.obj.name = Missing \/ thr[t].data.obj.email = Missing))
        => /\ thr[t].resp = ErrorRequired
           /\ thr[t].resp.status # 201

\* the object with a name and no email has been rejected
C4_Witness ==
    /\ DonePost(MainThread)
    /\ thr[MainThread].data = JObj(JStr("Dana"), Missing)
    /\ thr[MainThread].resp.status = 400

\* C5: a JSON POST whose body is an object with a non-empty string name and a
\* non-empty string email is answered 201 with {message, user}, where
\* user.name and user.email are the submitted ones, user.id is a positive
\* integer and user.created_at is present.
C5_ValidPostCreated ==
    \A t \in Threads :
        (/\ DonePost(t)
         /\ thr[t].req.ctype = "json"
         /\ "json" \in DOMAIN thr[t].req.raw
         /\ IsObj(thr[t].req.raw.json)
         /\ thr[t].req.raw.json.obj.name \in {JStr("Dana"), JStr("Eve")}
         /\ thr[t].req.raw.json.obj.email = JStr("dana@x.com"))
        => /\ thr[t].resp.status = 201
           /\ DOMAIN thr[t].resp.body = {"message", "user"}
           /\ thr[t].resp.body.user.name = thr[t].req.raw.json.obj.name
           /\ thr[t].resp.body.user.email = thr[t].req.raw.json.obj.email
           /\ thr[t].resp.body.user.id \in Nat \ {0}
           /\ "created_at" \in DOMAIN thr[t].resp.body.user

C5_Witness ==
    /\ DonePost(MainThread)
    /\ thr[MainThread].req.raw = RawJson(JObj(JStr("Dana"), JStr("dana@x.com")))
    /\ thr[MainThread].resp.status = 201
    /\ thr[MainThread].resp.body.user.name = JStr("Dana")

\* C6: GET /health answers status "OK"; with the start time recorded the
\* uptime is the clock reading minus the start time, which is not negative
\* when the clock was never set back; with no start time the uptime is 0.
C6_HealthUptime ==
    [][\A t \in Threads :
        health(t) =>
            /\ thr'[t].resp.status = 200
            /\ thr'[t].resp.body.status = "OK"
            /\ has_start_time => thr'[t].resp.body.uptime + start_time = clock
            /\ (has_start_time /\ ~steppedBack) => thr'[t].resp.body.uptime >= 0
            /\ ~has_start_time => thr'[t].resp.body.uptime = 0]_vars

\* a health answer with a positive uptime, under a clock never set back
C6_Witness ==
    \E t \in Threads :
        /\ Done(t)
        /\ IsRoute(t, "GET /health")
        /\ has_start_time
        /\ ~steppedBack
        /\ thr[t].resp.body.uptime > 0

\* C7, as the specification states it: a POST whose body is absent or is no
\* JSON is answered 400 with the body {"error": "Name and email are required"}.
C7_UnparseableGetsRequiredError ==
    \A t \in Threads :
        (DonePost(t) /\ thr[t].req.raw \in {RawAbsent, RawMalformed})
        => thr[t].resp = ErrorRequired

\* C7, amended: a POST whose body is absent or is no JSON is never answered
\* 201 but with a client error: 400 with the body
\* {"error": "Name and email are required"} exactly when the request declares
\* no JSON content type and get_json returns None for it (Flask before 2.1),
\* and otherwise the framework's own 400 or 415 error page.
C7_UnparseableIsClientError ==
    \A t \in Threads :
        (DonePost(t) /\ thr[t].req.raw \in {RawAbsent, RawMalformed})
        => /\ thr[t].resp.status \in {400, 415}
           /\ (thr[t].resp = ErrorRequired)
                <=> (thr[t].req.ctype # "json" /\ framework = "pre-2.1")
           /\ (thr[t].resp # ErrorRequired)
                => "html" \in DOMAIN thr[t].resp.body

\* a JSON request whose body does not parse got the framework's error page
C7_Witness ==
    /\ DonePost(MainThread)
    /\ thr[MainThread].req = PostReq("json", RawMalformed)
    /\ thr[MainThread].resp.status = 400
    /\ thr[MainThread].resp # ErrorRequired

\* C8: the id of a created user is the clock reading in whole milliseconds,
\* truncated, at the moment the handler builds the user; while the clock has
\* never been set back it is not smaller than the id given before it.
C8_IdIsTruncatedMillis ==
    [][\A t \in Threads :
        (create_user_respond(t) /\ thr'[t].resp.status = 201) =>
            LET id == thr'[t].resp.body.user.id
            IN  /\ id * TicksPerMs <= clock
                /\ clock < (id + 1) * TicksPerMs
                /\ (~steppedBack /\ lastId # 0) => id >= lastId]_vars

\* ids are not unique: two POSTs of different users, handled within the same
\* millisecond, hold the same id
C8_Witness ==
    \E t, u \in Threads :
        /\ t # u
        /\ DonePost(t)
        /\ DonePost(u)
        /\ thr[t].resp.status = 201
        /\ thr[u].resp.status = 201
        /\ thr[t].resp.body.user.name # thr[u].resp.body.user.name
        /\ thr[t].resp.body.user.id = thr[u].resp.body.user.id

\* C9: the handlers share no mutable state. Every answer of GET /api/users
\* is the same (200, the three seed users, count 3) whatever was handled
\* before or is in flight; a handler step changes nothing but its own
\* worker's locals; the answer of a POST is taken from its own parsed body
\* and the clock reading, and two POSTs of the same request differ in nothing
\* but what the clock gave them.
C9_NoSharedState ==
    /\ [](\A t \in Threads :
            DoneUsers(t) =>
                thr[t].resp = [status |-> 200,
                               body |-> [users |-> <<Alice, Bob, Charlie>>, count |-> 3]])
    /\ [](\A t, u \in Threads :
            (DonePost(t) /\ DonePost(u) /\ thr[t].req = thr[u].req) =>
                /\ thr[t].resp.status = thr[u].resp.status
                /\ thr[t].resp.status # 201 => thr[t].resp = thr[u].resp
                /\ (/\ thr[t].resp.status = 201
                    /\ thr[t].resp.body.user.created_at = thr[u].resp.body.user.created_at)
                   => thr[t].resp = thr[u].resp)
    /\ [][\A t \in Threads :
            Handle(t) =>
                /\ \A u \in Threads \ {t} : thr'[u] = thr[u]
                /\ UNCHANGED <<has_start_time, start_time, framework, clock>>]_vars
    /\ [][\A t \in Threads :
            (create_user_respond(t) /\ thr'[t].resp.status = 201) =>
                /\ thr'[t].resp.body.user.name = thr[t].data.obj.name
                /\ thr'[t].resp.body.user.email = thr[t].data.obj.email
                /\ thr'[t].resp.body.user.created_at = [iso |-> clock]]_vars

\* GET /api/users is answered with the seed list while the other worker
\* holds a 201 and a user has been created
C9_Witness ==
    \E t, u \in Threads :
        /\ DoneUsers(t)
        /\ thr[t].resp.body.count = 3
        /\ DonePost(u)
        /\ thr[u].resp.status = 201
        /\ created >= 1

\* the values of a key that Python takes for false, and the absent key
FalsyOrMissing == {Missing, JNull, JStr(""), JNum(0), JBool(FALSE)}

\* C10: a POST is answered 201 exactly when get_json returned an object whose
\* name and email are both present and neither "", null, 0 nor false; an
\* object in which either is absent or one of these values is answered 400
\* with the body {"error": "Name and email are required"}.
C10_AcceptedIffBothTruthy ==
    \A t \in Threads :
        DonePost(t) =>
            /\ (thr[t].resp.status = 201)
                 <=> (/\ thr[t].data # NoData
                      /\ IsObj(thr[t].data)
                      /\ thr[t].data.obj.name \notin FalsyOrMissing
                      /\ thr[t].data.obj.email \notin FalsyOrMissing)
            /\ (/\ thr[t].data # NoData
                /\ IsObj(thr[t].data)
                /\ (\/ thr[t].data.obj.name \in FalsyOrMissing
                    \/ thr[t].data.obj.email \in FalsyOrMissing))
               => thr[t].resp = ErrorRequired

\* an object whose name is the empty string has been rejected
C10_Witness ==
    /\ DonePost(MainThread)
    /\ thr[MainThread].data = JObj(JStr(""), JStr("dana@x.com"))
    /\ thr[MainThread].resp = ErrorRequired

=============================================================================
